---- MODULE Spec2Model ----
(***************************************************************************)
(* Model of the train -> persist -> load -> serve lifecycle of the         *)
(* repository: the training job of src/dags/train_pipeline.py and the      *)
(* serving endpoint of src/api/main.py, coupled only through the model     *)
(* artifact file.                                                          *)
(*                                                                         *)
(* The modelling library (LabelEncoder, LogisticRegression) is abstracted  *)
(* to what the two programs observe of it: the label codes, the feature    *)
(* names and class list of a fitted model, a deterministic score per       *)
(* class, and the errors it raises.                                        *)
(***************************************************************************)
EXTENDS Integers, Sequences, FiniteSets, TLC

\* ------------------------------------------------------------------ bounds
\* Largest value of a varying numeric request field.
MaxField == 1

\* --------------------------------------------------------------- constants
\* src/dags/train_pipeline.py:13-14
DATA_PATH == "/opt/airflow/data/dataset.csv"
DAG_MODEL_PATH == "/opt/airflow/models/model.pkl"
\* os.path.dirname(MODEL_PATH), src/dags/train_pipeline.py:45
DAG_MODEL_DIR == "/opt/airflow/models"
\* src/api/main.py:9 -- a path relative to the endpoint's working directory
API_MODEL_PATH == "models/model.pkl"

\* Working directories the endpoint process may be started in.
WorkDirs == {"/opt/airflow", "/app"}

\* A relative path is resolved against the working directory of the process.
Resolve(dir, rel) == dir \o "/" \o rel

\* Every file a process of the system can name as its model artifact.
ModelPaths == {DAG_MODEL_PATH} \cup {Resolve(d, API_MODEL_PATH) : d \in WorkDirs}

\* ------------------------------------------------------------ table cells
\* A cell of the CSV table: a number or a string.
N(v) == [num |-> TRUE, v |-> v, s |-> ""]
S(s) == [num |-> FALSE, v |-> 0, s |-> s]

\* Python's ordering of the string labels that occur in the datasets.
SortedLabels == <<"maybe", "no", "yes">>

\* Sort key of a cell inside one column (numbers by value, strings by the
\* lexicographic order of Python str).
Key(c) ==
    IF c.num THEN c.v
    ELSE CHOOSE i \in 1..Len(SortedLabels) : SortedLabels[i] = c.s

\* ---------------------------------------------------------------- tables
\* A table is [cols |-> sequence of column names, rows |-> sequence of rows],
\* a row being a sequence of cells aligned with cols.
ColIndex(cols, name) == CHOOSE i \in 1..Len(cols) : cols[i] = name
HasCol(cols, name) == \E i \in 1..Len(cols) : cols[i] = name
Column(t, name) == [r \in 1..Len(t.rows) |-> t.rows[r][ColIndex(t.cols, name)]]

\* The subsequence of s whose elements are not in the set drop.
RECURSIVE Without(_, _)
Without(s, drop) ==
    IF s = <<>> THEN <<>>
    ELSE IF Head(s) \in drop THEN Without(Tail(s), drop)
    ELSE <<Head(s)>> \o Without(Tail(s), drop)

\* The elements of a finite set of integers in ascending order.
RECURSIVE SortedSeq(_)
SortedSeq(set) ==
    IF set = {} THEN <<>>
    ELSE LET m == CHOOSE x \in set : \A y \in set : x <= y
         IN <<m>> \o SortedSeq(set \ {m})

RECURSIVE SumSeq(_)
SumSeq(s) == IF s = <<>> THEN 0 ELSE Head(s) + SumSeq(Tail(s))

\* --------------------------------------------------------------- datasets
CanonicalCols ==
    <<"age", "bmi", "blood_pressure", "cholesterol", "glucose", "smoker",
      "target", "patient_id">>

File(cols, rows) == [exists |-> TRUE, parsable |-> TRUE, cols |-> cols, rows |-> rows]
MissingFile == [exists |-> FALSE, parsable |-> FALSE, cols |-> <<>>, rows |-> <<>>]
GarbledFile == [exists |-> TRUE, parsable |-> FALSE, cols |-> <<>>, rows |-> <<>>]

\* first label seen is "yes"
D_yes_first ==
    File(CanonicalCols,
         << <<N(1), N(1), N(1), N(1), N(1), S("yes"), N(1), N(1)>>,
            <<N(0), N(1), N(1), N(1), N(0), S("no"),  N(0), N(2)>> >>)
\* first label seen is "no"; three labels
D_no_first ==
    File(CanonicalCols,
         << <<N(0), N(1), N(0), N(1), N(1), S("no"),    N(0), N(1)>>,
            <<N(1), N(0), N(1), N(1), N(1), S("yes"),   N(1), N(2)>>,
            <<N(1), N(1), N(1), N(0), N(1), S("maybe"), N(1), N(3)>>,
            <<N(0), N(1), N(1), N(1), N(0), S("no"),    N(0), N(4)>> >>)
\* no smoker column
D_no_smoker ==
    File(<<"age", "bmi", "blood_pressure", "cholesterol", "glucose",
           "target", "patient_id">>,
         << <<N(1), N(1), N(1), N(1), N(1), N(1), N(1)>>,
            <<N(0), N(1), N(0), N(1), N(0), N(0), N(2)>> >>)
\* no target column
D_no_target ==
    File(<<"age", "bmi", "blood_pressure", "cholesterol", "glucose", "smoker",
           "patient_id">>,
         << <<N(1), N(1), N(1), N(1), N(1), S("yes"), N(1)>>,
            <<N(0), N(1), N(1), N(1), N(0), S("no"),  N(2)>> >>)
\* a non-numeric feature
D_text_feature ==
    File(CanonicalCols,
         << <<N(1), S("yes"), N(1), N(1), N(1), S("yes"), N(1), N(1)>>,
            <<N(0), S("no"),  N(1), N(1), N(0), S("no"),  N(0), N(2)>> >>)

\* What may be found at DATA_PATH.
DataFiles ==
    {MissingFile, GarbledFile, D_yes_first, D_no_first, D_no_smoker,
     D_no_target, D_text_feature}

NoTable == [cols |-> <<>>, rows |-> <<>>]

\* ------------------------------------------------------ training job, pure
\* Variant: codes in order of first appearance instead of sorted order.
LabelEncoder_first_seen(col) ==
    [i \in DOMAIN col |->
       LET firstAt(k) == CHOOSE r \in DOMAIN col :
                             /\ Key(col[r]) = k
                             /\ \A q \in DOMAIN col : Key(col[q]) = k => r <= q
       IN N(Cardinality({k \in {Key(col[q]) : q \in DOMAIN col} :
                           firstAt(k) < firstAt(Key(col[i]))}))]

\* LabelEncoder().fit_transform(column): the classes are the distinct labels
\* in sorted order (numpy.unique), and a label's code is its position among
\* them, counted from 0.
LabelEncoder_fit_transform(col) ==
    LET keys == {Key(col[i]) : i \in DOMAIN col}
    IN [i \in DOMAIN col |-> N(Cardinality({k \in keys : k < Key(col[i])}))]

\* load_data(): read and parse the file at DATA_PATH, then encode the
\* smoker column when there is one.  A result is the table or the error.
load_data(f) ==
    IF ~f.exists THEN [ok |-> FALSE, err |-> "FileNotFoundError", df |-> NoTable]
    ELSE IF ~f.parsable THEN [ok |-> FALSE, err |-> "ParserError", df |-> NoTable]
    ELSE LET df == [cols |-> f.cols, rows |-> f.rows]
         IN IF HasCol(df.cols, "smoker")
            THEN LET k == ColIndex(df.cols, "smoker")
                     codes == LabelEncoder_fit_transform(Column(df, "smoker"))
                 IN [ok |-> TRUE, err |-> "",
                     df |-> [cols |-> df.cols,
                             rows |-> [r \in 1..Len(df.rows) |->
                                         [df.rows[r] EXCEPT ![k] = codes[r]]]]]
            ELSE [ok |-> TRUE, err |-> "", df |-> df]

\* A fitted classifier: the feature names seen at fit time, the classes in
\* ascending order, and per class the fitted parameters (one per feature).
NoModel == [features |-> <<>>, classes |-> <<>>, sums |-> <<>>]

\* LogisticRegression(max_iter=1000).fit(X, y), abstracted: the parameters
\* of a class are a deterministic function of the training rows (here the
\* column sums over the rows of that class).
LogisticRegression_fit(Xcols, X, y) ==
    LET classes == SortedSeq({y[r] : r \in DOMAIN y})
    IN [features |-> Xcols,
        classes  |-> classes,
        sums     |-> [c \in 1..Len(classes) |->
                        [j \in 1..Len(Xcols) |->
                           SumSeq([r \in 1..Len(X) |->
                                     IF y[r] = classes[c] THEN X[r][j] ELSE 0])]]]

\* train_model(df): drop target and patient_id, fit on the remaining
\* columns against target.  A result is the fitted model or the error.
train_model(df) ==
    IF ~HasCol(df.cols, "target") \/ ~HasCol(df.cols, "patient_id")
    THEN [ok |-> FALSE, err |-> "KeyError", model |-> NoModel]
    ELSE LET Xcols == Without(df.cols, {"target", "patient_id"})
             Xcell == [r \in 1..Len(df.rows) |->
                         [j \in 1..Len(Xcols) |->
                            df.rows[r][ColIndex(df.cols, Xcols[j])]]]
             ycell == Column(df, "target")
         IN IF \E r \in DOMAIN Xcell : \E j \in DOMAIN Xcell[r] : ~Xcell[r][j].num
            THEN [ok |-> FALSE, err |-> "ValueError", model |-> NoModel]
            ELSE IF Cardinality({ycell[r].v : r \in DOMAIN ycell}) < 2
            THEN [ok |-> FALSE, err |-> "ValueError", model |-> NoModel]
            ELSE [ok |-> TRUE, err |-> "",
                  model |-> LogisticRegression_fit(
                                Xcols,
                                [r \in DOMAIN Xcell |->
                                   [j \in DOMAIN Xcell[r] |-> Xcell[r][j].v]],
                                [r \in DOMAIN ycell |-> ycell[r].v])]

\* --------------------------------------------------- serving endpoint, pure
\* class PredictionRequest: five float fields and smoker, an int 0 or 1.
\* The requests considered vary in age and smoker; the other fields are 1.
PredictionRequest ==
    [age : 0..MaxField, bmi : {1}, blood_pressure : {1}, cholesterol : {1},
     glucose : {1}, smoker : {0, 1}]

\* The keys of the dict the handler builds, in insertion order.
FeatureOrder ==
    <<"age", "bmi", "blood_pressure", "cholesterol", "glucose", "smoker">>

\* pd.DataFrame([data]): one row under the handler's column names.
RequestFrame(request) ==
    [cols |-> FeatureOrder,
     row  |-> [j \in 1..Len(FeatureOrder) |-> request[FeatureOrder[j]]]]

\* The library refuses a frame whose feature names are not those of fit.
\* (The datasets considered differ from the handler's columns, if at all,
\* in the number of features, which every version of the library refuses.)
FeatureMismatch == "X does not have the feature names seen at fit time"
Accepts(m, df) == df.cols = m.features

Score(m, c, row) == SumSeq([j \in 1..Len(row) |-> m.sums[c][j] * row[j]])

\* model.predict(df)[0]: the class of the highest score, the first on a tie.
model_predict(m, df) ==
    LET best == CHOOSE c \in 1..Len(m.classes) :
                    \A d \in 1..Len(m.classes) :
                        \/ Score(m, c, df.row) > Score(m, d, df.row)
                        \/ Score(m, c, df.row) = Score(m, d, df.row) /\ c <= d
    IN m.classes[best]

\* model.predict_proba(df)[0].tolist(): one probability per class, in class
\* order, each an exact fraction <<numerator, denominator>>.
model_predict_proba(m, df) ==
    LET total == SumSeq([c \in 1..Len(m.classes) |-> Score(m, c, df.row)])
    IN [c \in 1..Len(m.classes) |->
          IF total = 0 THEN <<1, Len(m.classes)>>
          ELSE <<Score(m, c, df.row), total>>]

\* Responses: a status code and a JSON body.
Response(status, body) == [status |-> status, body |-> body]
NoResponse == Response(0, [empty |-> TRUE])
Healthy == Response(200, [status |-> "healthy"])

\* Variant: no try/except, the framework answers with its own generic 500.
predict_uncaught(m, request) ==
    LET df == RequestFrame(request)
    IN IF ~Accepts(m, df)
       THEN Response(500, [detail |-> "Internal Server Error"])
       ELSE Response(200, [prediction  |-> model_predict(m, df),
                           probability |-> model_predict_proba(m, df)])

\* predict(request): the body of the handler with its try/except.
predict(m, request) ==
    LET df == RequestFrame(request)
    IN IF ~Accepts(m, df)
       THEN Response(500, [detail |-> FeatureMismatch])
       ELSE Response(200, [prediction  |-> model_predict(m, df),
                           probability |-> model_predict_proba(m, df)])

\* health(): a static body.
health == Healthy

\* ------------------------------------------------------------------ state
VARIABLES
    dataFile,       \* what is at DATA_PATH
    files,          \* the model artifact at each path: [exists, obj]
    dirs,           \* the directories that exist
    tpc,            \* position of the training run: idle, loaded, fitted, dir_ok
    tdf,            \* train_and_save_model's df
    tmodel,         \* train_and_save_model's model
    traw,           \* the table the running run parsed, before encoding
    lastCompleted,  \* the model fitted by the most recent completed run
    up,             \* the endpoint process: down, crashed, up
    cwd,            \* working directory of the endpoint process
    model,          \* the endpoint's module-level model
    resp,           \* the last response sent
    lastReq,        \* the request of the last predict call
    probe,          \* the fixed input record whose responses are compared
    first,          \* the first response to probe in this process lifetime
    repeated,       \* the last predict call repeated probe in this lifetime
    lastOp          \* the operation that ran last

vars ==
    <<dataFile, files, dirs, tpc, tdf, tmodel, traw, lastCompleted,
      up, cwd, model, resp, lastReq, probe, first, repeated, lastOp>>

trainVars == <<tpc, tdf, tmodel, traw, lastCompleted>>
serveVars == <<up, cwd, model, resp, lastReq, probe, first, repeated>>

NoFile == [exists |-> FALSE, obj |-> NoModel]
NoRequest == CHOOSE r \in PredictionRequest : r.age = 0 /\ r.smoker = 0

Init ==
    /\ dataFile = MissingFile
    /\ files = [p \in ModelPaths |-> NoFile]
    /\ dirs = {}
    /\ tpc = "idle"
    /\ tdf = NoTable
    /\ tmodel = NoModel
    /\ traw = NoTable
    /\ lastCompleted = NoModel
    /\ up = "down"
    /\ cwd = ""
    /\ model = NoModel
    /\ resp = NoResponse
    /\ lastReq = NoRequest
    /\ probe \in PredictionRequest
    /\ first = NoResponse
    /\ repeated = FALSE
    /\ lastOp = "init"

\* ------------------------------------------------------------ environment
\* Someone puts, replaces or removes the dataset file between runs.
PutDataset(f) ==
    /\ tpc = "idle"
    /\ f # dataFile
    /\ dataFile' = f
    /\ lastOp' = "put_dataset"
    /\ UNCHANGED <<files, dirs, trainVars, serveVars>>

\* ----------------------------------------------------------- training job
\* Variant: the output directory is created before the data is loaded.
TrainLoad_makedirs_first ==
    /\ tpc = "idle"
    /\ LET r == load_data(dataFile)
       IN IF r.ok
          THEN /\ tpc' = "loaded"
               /\ tdf' = r.df
               /\ traw' = [cols |-> dataFile.cols, rows |-> dataFile.rows]
               /\ lastOp' = "load_data"
          ELSE /\ tpc' = "idle"
               /\ tdf' = NoTable
               /\ traw' = NoTable
               /\ lastOp' = "train_abort"
    /\ dirs' = dirs \cup {DAG_MODEL_DIR}
    /\ UNCHANGED <<dataFile, files, tmodel, lastCompleted, serveVars>>

\* train_and_save_model, line 43: df = load_data().  An exception ends the run.
TrainLoad ==
    /\ tpc = "idle"
    /\ LET r == load_data(dataFile)
       IN IF r.ok
          THEN /\ tpc' = "loaded"
               /\ tdf' = r.df
               /\ traw' = [cols |-> dataFile.cols, rows |-> dataFile.rows]
               /\ lastOp' = "load_data"
          ELSE /\ tpc' = "idle"
               /\ tdf' = NoTable
               /\ traw' = NoTable
               /\ lastOp' = "train_abort"
    /\ UNCHANGED <<dataFile, files, dirs, tmodel, lastCompleted, serveVars>>

\* train_and_save_model, line 44: model = train_model(df).
TrainFit ==
    /\ tpc = "loaded"
    /\ LET r == train_model(tdf)
       IN IF r.ok
          THEN /\ tpc' = "fitted"
               /\ tmodel' = r.model
               /\ lastOp' = "train_model"
          ELSE /\ tpc' = "idle"
               /\ tmodel' = NoModel
               /\ lastOp' = "train_abort"
    /\ tdf' = NoTable
    /\ traw' = NoTable
    /\ UNCHANGED <<dataFile, files, dirs, lastCompleted, serveVars>>

\* train_and_save_model, line 45: os.makedirs(dirname(MODEL_PATH), exist_ok=True).
TrainMakedirs ==
    /\ tpc = "fitted"
    /\ dirs' = dirs \cup {DAG_MODEL_DIR}
    /\ tpc' = "dir_ok"
    /\ lastOp' = "makedirs"
    /\ UNCHANGED <<dataFile, files, tdf, tmodel, traw, lastCompleted, serveVars>>

\* train_and_save_model, lines 46-48: joblib.dump(model, MODEL_PATH); the run
\* is complete.
TrainDump ==
    /\ tpc = "dir_ok"
    /\ files' = [files EXCEPT ![DAG_MODEL_PATH] = [exists |-> TRUE, obj |-> tmodel]]
    /\ lastCompleted' = tmodel
    /\ tmodel' = NoModel
    /\ tpc' = "idle"
    /\ lastOp' = "train_done"
    /\ UNCHANGED <<dataFile, dirs, tdf, traw, serveVars>>

train_and_save_model == TrainLoad \/ TrainFit \/ TrainMakedirs \/ TrainDump

\* ------------------------------------------------------- serving endpoint
\* Variant: a missing artifact is tolerated and the process comes up anyway.
Startup_without_model(d) ==
    /\ up \in {"down", "crashed"}
    /\ cwd' = d
    /\ up' = "up"
    /\ model' = files[Resolve(d, API_MODEL_PATH)].obj
    /\ resp' = NoResponse
    /\ lastReq' = NoRequest
    /\ first' = NoResponse
    /\ repeated' = FALSE
    /\ lastOp' = "startup"
    /\ UNCHANGED <<dataFile, files, dirs, trainVars, probe>>

\* Import of src/api/main.py in a process whose working directory is d:
\* raise FileNotFoundError unless the artifact exists, else load it.
Startup(d) ==
    /\ up \in {"down", "crashed"}
    /\ cwd' = d
    /\ LET f == files[Resolve(d, API_MODEL_PATH)]
       IN IF ~f.exists
          THEN up' = "crashed" /\ model' = NoModel
          ELSE up' = "up" /\ model' = f.obj
    /\ resp' = NoResponse
    /\ lastReq' = NoRequest
    /\ first' = NoResponse
    /\ repeated' = FALSE
    /\ lastOp' = "startup"
    /\ UNCHANGED <<dataFile, files, dirs, trainVars, probe>>

\* The endpoint process is stopped.
Shutdown ==
    /\ up = "up"
    /\ up' = "down"
    /\ cwd' = ""
    /\ model' = NoModel
    /\ resp' = NoResponse
    /\ lastReq' = NoRequest
    /\ first' = NoResponse
    /\ repeated' = FALSE
    /\ lastOp' = "shutdown"
    /\ UNCHANGED <<dataFile, files, dirs, trainVars, probe>>

\* Variant: the health check reports whether the model can serve.
Health_reports_model ==
    /\ up = "up"
    /\ resp' = IF model.features = FeatureOrder
               THEN Healthy
               ELSE Response(503, [status |-> "unhealthy"])
    /\ lastOp' = "health"
    /\ UNCHANGED <<dataFile, files, dirs, trainVars, up, cwd, model, lastReq, probe,
                   first, repeated>>

\* GET /health
Health ==
    /\ up = "up"
    /\ resp' = health
    /\ lastOp' = "health"
    /\ UNCHANGED <<dataFile, files, dirs, trainVars, up, cwd, model, lastReq, probe,
                   first, repeated>>

\* Variant: the handler reloads the artifact into the module-level model.
Predict_reloads(request) ==
    /\ up = "up"
    /\ model' = LET f == files[Resolve(cwd, API_MODEL_PATH)]
                IN IF f.exists THEN f.obj ELSE model
    /\ resp' = predict(model', request)
    /\ lastReq' = request
    /\ first' = IF request = probe /\ first = NoResponse THEN resp' ELSE first
    /\ repeated' = (request = probe /\ first # NoResponse)
    /\ lastOp' = "predict"
    /\ UNCHANGED <<dataFile, files, dirs, trainVars, up, cwd, probe>>

\* Variant: the handler answers from the artifact on disk, not from memory.
Predict_from_disk(request) ==
    /\ up = "up"
    /\ resp' = predict(files[Resolve(cwd, API_MODEL_PATH)].obj, request)
    /\ lastReq' = request
    /\ first' = IF request = probe /\ first = NoResponse THEN resp' ELSE first
    /\ repeated' = (request = probe /\ first # NoResponse)
    /\ lastOp' = "predict"
    /\ UNCHANGED <<dataFile, files, dirs, trainVars, up, cwd, model, probe>>

\* POST /predict with a request the schema layer accepted.
Predict(request) ==
    /\ up = "up"
    /\ resp' = predict(model, request)
    /\ lastReq' = request
    /\ first' = IF request = probe /\ first = NoResponse THEN resp' ELSE first
    /\ repeated' = (request = probe /\ first # NoResponse)
    /\ lastOp' = "predict"
    /\ UNCHANGED <<dataFile, files, dirs, trainVars, up, cwd, model, probe>>

Next ==
    \/ \E f \in DataFiles : PutDataset(f)
    \/ TrainLoad
    \/ TrainFit
    \/ TrainMakedirs
    \/ TrainDump
    \/ \E d \in WorkDirs : Startup(d)
    \/ Shutdown
    \/ Health
    \/ \E request \in PredictionRequest : Predict(request)

Spec == Init /\ [][Next]_vars

TypeOK ==
    /\ dataFile \in DataFiles
    /\ tpc \in {"idle", "loaded", "fitted", "dir_ok"}
    /\ up \in {"down", "crashed", "up"}
    /\ dirs \subseteq {DAG_MODEL_DIR}
    /\ lastReq \in PredictionRequest

\* ----------------------------------------------------------------- claims
ArtifactAt(d) == files[Resolve(d, API_MODEL_PATH)]

\* C1: the endpoint never serves without a loaded model.  A startup that
\* finds no artifact leaves the process crashed with no model; a process that
\* is up holds a fitted model, the one its startup read from the artifact;
\* health and predict are handled only by a process that is up.
C1_NeverServesWithoutModel ==
    /\ (lastOp = "startup" /\ ~ArtifactAt(cwd).exists)
           => (up = "crashed" /\ model = NoModel)
    /\ (lastOp = "startup" /\ ArtifactAt(cwd).exists)
           => (up = "up" /\ model = ArtifactAt(cwd).obj)
    /\ up = "up" => model # NoModel
    /\ lastOp \in {"health", "predict"} => (up = "up" /\ resp # NoResponse)

\* a startup has just found no artifact and failed
C1_Witness == lastOp = "startup" /\ up = "crashed" /\ ~ArtifactAt(cwd).exists

\* C2: a run that fails in load or fit aborts without having written: the
\* artifact files and the directories change only in the persist steps, which
\* run only once train_model has returned a model, and a step that loads,
\* fits or aborts leaves them as they were.
C2_FailedRunWritesNothing ==
    [][/\ (files' # files \/ dirs' # dirs)
           => (tpc \in {"fitted", "dir_ok"} /\ tmodel # NoModel)
       /\ lastOp' \in {"load_data", "train_model", "train_abort"}
           => (files' = files /\ dirs' = dirs)
       /\ lastOp' = "train_abort"
           => (tpc \in {"idle", "loaded"} /\ tpc' = "idle" /\ tmodel' = NoModel)]_vars

\* a run on a dataset without target aborted with an earlier artifact in place
C2_Witness ==
    /\ lastOp = "train_abort"
    /\ dataFile = D_no_target
    /\ files[DAG_MODEL_PATH].exists

\* C3: an endpoint process started after a training run has completed comes
\* up with exactly the model fitted by the most recent completed run.
C3_StartupLoadsLatestRun ==
    (lastOp = "startup" /\ lastCompleted # NoModel)
        => (up = "up" /\ model = lastCompleted)

\* C4: an exception inside the predict handler becomes a status-500 response
\* whose detail is the exception's message, without prediction or
\* probability; the process stays up and its model is unchanged.
C4_ExceptionBecomes500 ==
    [][(lastOp' = "predict" /\ ~Accepts(model, RequestFrame(lastReq')))
          => /\ resp'.status = 500
             /\ DOMAIN resp'.body = {"detail"}
             /\ resp'.body.detail = FeatureMismatch
             /\ up' = "up"
             /\ model' = model]_vars

\* a predict call has just failed
C4_Witness == lastOp = "predict" /\ resp.status = 500 /\ up = "up"

\* C5: the in-memory model is set at startup only: while the process stays
\* up no step changes it, whatever happens to the artifact file.
C5_ModelHeldForLifetime ==
    [][/\ (up = "up" /\ up' = "up") => model' = model
       /\ model' # model => lastOp' \in {"startup", "shutdown"}]_vars

\* the artifact was overwritten by a later run while the endpoint served
C5_Witness ==
    /\ up = "up"
    /\ lastOp = "predict"
    /\ ArtifactAt(cwd).exists
    /\ ArtifactAt(cwd).obj # model

\* C6: for any fixed input record (probe), a predict call with it returns
\* what the first call with it returned in this process lifetime, whatever
\* was handled in between.
C6_RepeatedPredictIdentical ==
    (lastOp = "predict" /\ lastReq = probe) => resp = first

\* a successful repeated call, after a retraining replaced the artifact
C6_Witness ==
    /\ lastOp = "predict"
    /\ repeated
    /\ resp.status = 200
    /\ ArtifactAt(cwd).obj # model

\* C7: every valid request gets a prediction among the classes seen during
\* training and one probability per class, each in [0,1], summing to 1.
C7_ValidRequestPredicts ==
    lastOp = "predict"
        => /\ resp.status = 200
           /\ \E c \in DOMAIN model.classes : resp.body.prediction = model.classes[c]
           /\ Len(resp.body.probability) = Len(model.classes)
           /\ \A c \in DOMAIN resp.body.probability :
                 /\ resp.body.probability[c][2] > 0
                 /\ 0 <= resp.body.probability[c][1]
                 /\ resp.body.probability[c][1] <= resp.body.probability[c][2]
           /\ \E den \in {resp.body.probability[1][2]} :
                 /\ \A c \in DOMAIN resp.body.probability :
                       resp.body.probability[c][2] = den
                 /\ SumSeq([c \in DOMAIN resp.body.probability |->
                              resp.body.probability[c][1]]) = den

\* C8: health answers the static healthy body and changes nothing else.
C8_HealthStaticNoSideEffects ==
    [][lastOp' = "health"
          => /\ resp' = Response(200, [status |-> "healthy"])
             /\ UNCHANGED <<dataFile, files, dirs, trainVars, up, cwd, model,
                            lastReq, probe, first, repeated>>]_vars

\* health answered healthy after a failed predict call
C8_Witness ==
    /\ lastOp = "health"
    /\ resp.body.status = "healthy"
    /\ first.status = 500

\* C9: the handler's feature record has the column names, in order, of the
\* feature matrix of every model the training job fits.
C9_FeatureLockstep ==
    tpc \in {"fitted", "dir_ok"}
        => \A r \in PredictionRequest : RequestFrame(r).cols = tmodel.features

\* The smoker column of a table, as sort keys.
SmokerKeys(t) == [r \in 1..Len(t.rows) |-> Key(Column(t, "smoker")[r])]
\* The first row in which the label of row r occurs.
FirstRowOf(t, r) ==
    CHOOSE q \in 1..Len(t.rows) :
        /\ SmokerKeys(t)[q] = SmokerKeys(t)[r]
        /\ \A p \in 1..Len(t.rows) : SmokerKeys(t)[p] = SmokerKeys(t)[r] => q <= p
\* Every column but smoker is as parsed.
OthersUnchanged ==
    /\ tdf.cols = traw.cols
    /\ Len(tdf.rows) = Len(traw.rows)
    /\ \A r \in 1..Len(traw.rows) : \A j \in 1..Len(traw.cols) :
          traw.cols[j] # "smoker" => tdf.rows[r][j] = traw.rows[r][j]

\* C10 as stated: the smoker codes follow first-seen order (the label of the
\* first row gets 0, the next new label 1, ...); without a smoker column the
\* table is unchanged.
C10_FirstSeenCodes ==
    tpc = "loaded" =>
        IF HasCol(traw.cols, "smoker")
        THEN /\ OthersUnchanged
             /\ \A r \in 1..Len(traw.rows) :
                   Column(tdf, "smoker")[r] =
                       N(Cardinality({FirstRowOf(traw, q) : q \in
                             {p \in 1..Len(traw.rows) :
                                  FirstRowOf(traw, p) < FirstRowOf(traw, r)}}))
        ELSE tdf = traw

\* C10 amended: the smoker codes are 0..k-1 for k distinct labels, equal
\* labels get equal codes, and the codes follow the sorted order of the
\* labels; without a smoker column the table is unchanged.
C10_SortedCodes ==
    tpc = "loaded" =>
        IF HasCol(traw.cols, "smoker")
        THEN LET code == Column(tdf, "smoker")
                 key  == SmokerKeys(traw)
                 rows == 1..Len(traw.rows)
             IN /\ OthersUnchanged
                /\ \A r \in rows : code[r].num
                /\ {code[r].v : r \in rows} =
                       0..(Cardinality({key[r] : r \in rows}) - 1)
                /\ \A p, q \in rows : (code[p].v < code[q].v) <=> (key[p] < key[q])
        ELSE tdf = traw

\* a table whose first label is not the smallest one was encoded
C10_Witness ==
    /\ tpc = "loaded"
    /\ HasCol(traw.cols, "smoker")
    /\ \E r \in 2..Len(traw.rows) : SmokerKeys(traw)[r] < SmokerKeys(traw)[1]

====
